---- MODULE Spec2Model ----
(***************************************************************************)
(* Host controller of the in-cell parameter tool (src/main.js): the single *)
(* process-wide serial connection with its connect / disconnect / send     *)
(* request handlers and window life cycle, and the spreadsheet import and  *)
(* export handlers.                                                        *)
(*                                                                         *)
(* The handlers are async functions on one event loop.  A handler runs     *)
(* without interruption up to an await of a library call; the completion   *)
(* of the library call and the handler's continuation up to its next await *)
(* (or its return) run in one turn of the loop, because the continuation   *)
(* is a microtask queued by the library's callback.  Each action below is  *)
(* one such turn.                                                          *)
(***************************************************************************)
EXTENDS Integers, Sequences, FiniteSets, Bags, TLC

\* Bounds of the model.
MaxConns == 2          \* connection objects constructed in one run
MaxReqs == 2           \* bridge requests in flight at one time

\* Device paths a connect request may name.
Paths == {"COM1", "COM2"}

VARIABLES
  serialPort,   \* main.js:8   0 is null, otherwise an index into conns
  mainWindow,   \* main.js:7   TRUE when the window object exists
  quit,         \* before-quit has been handled
  conns,        \* the SerialPort objects constructed so far
  reqs,         \* the bag of bridge requests in flight, each suspended at an await
  ret,          \* the outcome returned to the renderer in the latest turn
  sent,         \* the events pushed through webContents.send in the latest turn
  uiStatus,     \* the last serial:status event the UI received
  fileIn,       \* inputs of the file handlers
  wsFile,       \* the sheet written by the last completed export
  fileOut       \* outcome of the last file request

serialVars == <<serialPort, mainWindow, quit, conns, reqs, ret, sent, uiStatus>>
fileVars == <<fileIn, wsFile, fileOut>>
vars == <<serialPort, mainWindow, quit, conns, reqs, ret, sent, uiStatus,
          fileIn, wsFile, fileOut>>

----------------------------------------------------------------------------
\* Connection objects.

\* new SerialPort({path, ..., autoOpen: false}) followed by open(): main.js:59-70.
\* data, error and close count the listeners registered on the object; lost
\* is whether the device, not a request or the window, has closed the port.
NewConn(p) ==
  [path |-> p, st |-> "opening", data |-> 0, error |-> 0, close |-> 0,
   lost |-> FALSE]

\* serialPort.isOpen of connection object c.
IsOpen(c) == conns[c].st = "open"

\* The guard `serialPort && serialPort.isOpen` of main.js:32,55,107,120,301.
RefOpen == serialPort # 0 /\ IsOpen(serialPort)

OpenConns == {c \in 1..Len(conns) : conns[c].st = "open"}

\* A request in flight.  pc is the await the handler is suspended at; closes
\* is the connection it asked to close, own the connection it constructed,
\* tgt the connection its pending write or drain was called on; id is the
\* number of the invocation, which tells it from the others in flight.
Req(kind, pc, path, closes, own, tgt, write, flush) ==
  [kind |-> kind, pc |-> pc, path |-> path, closes |-> closes, own |-> own,
   tgt |-> tgt, write |-> write, flush |-> flush, id |-> 0]

\* The outcome request r returns: {success: true} or {success: false, error}.
Outcome(r, res, err) ==
  [kind |-> r.kind, res |-> res, err |-> err, path |-> r.path,
   closes |-> r.closes, own |-> r.own, write |-> r.write, flush |-> r.flush]

\* No request returns in this turn.
NoRet == Outcome(Req("none", "done", "", 0, 0, 0, "none", "none"), "none", "")

\* Requests in flight: the handlers suspended at an await.
InFlight == BagToSet(reqs)

\* The invocation numbers in use.
Ids == {q.id : q \in InFlight}

\* Request r as a new invocation: it takes the first number not in use.
Fresh(r) ==
  [r EXCEPT !.id = CHOOSE n \in 1..MaxReqs : n \notin Ids /\ \A m \in 1..(n - 1) : m \in Ids]

\* reqs with request r added, removed, and replaced by r2.
Issue(r) == reqs (+) SetToBag({Fresh(r)})
Drop(r) == reqs (-) SetToBag({r})
Resume(r, r2) == Drop(r) (+) SetToBag({r2})

\* The renderer can issue a request only while its window exists; the
\* handlers themselves test nothing (preload.js:9-16), before-quit included.
CanRequest == mainWindow

\* Connection objects constructed or promised to a connect waiting for a close.
Reserved ==
  Len(conns) + Cardinality({r \in InFlight : r.kind = "connect" /\ r.pc = "closing"})

\* webContents.send('serial:status', ...) events.
StatusOn(p) == [connected |-> TRUE, port |-> p]
StatusOff == [connected |-> FALSE, port |-> ""]

\* The status the UI shows after receiving the events evs in order.
Shown(evs) == IF evs = <<>> THEN uiStatus ELSE evs[Len(evs)]

\* A turn that pushes nothing to the UI.
NoPush == sent' = <<>> /\ UNCHANGED uiStatus

\* A turn that pushes the events evs to the UI.
Push(evs) == sent' = evs /\ uiStatus' = Shown(evs)

RECURSIVE Repeat(_, _)
Repeat(e, n) == IF n = 0 THEN <<>> ELSE <<e>> \o Repeat(e, n - 1)

----------------------------------------------------------------------------
\* serial:connect, main.js:52-74, up to its first await.
Connect(p) ==
  /\ CanRequest
  /\ BagCardinality(reqs) < MaxReqs
  /\ Reserved < MaxConns
  /\ IF RefOpen
     THEN \* await close of the existing connection (main.js:55-57)
          /\ conns' = [conns EXCEPT ![serialPort].st = "closing"]
          /\ reqs' = Issue(Req("connect", "closing", p, serialPort, 0, 0,
                                 "none", "none"))
          /\ UNCHANGED serialPort
     ELSE \* construct, assign and open (main.js:59-74)
          /\ conns' = Append(conns, NewConn(p))
          /\ serialPort' = Len(conns) + 1
          /\ reqs' = Issue(Req("connect", "opening", p, 0, Len(conns) + 1, 0,
                                 "none", "none"))
  /\ ret' = NoRet
  /\ NoPush
  /\ UNCHANGED <<mainWindow, quit, fileVars>>

\* Disconnect with the reference cleared outside the isOpen test.
DisconnectClearsAlways ==
  /\ CanRequest
  /\ IF RefOpen
     THEN /\ BagCardinality(reqs) < MaxReqs
          /\ conns' = [conns EXCEPT ![serialPort].st = "closing"]
          /\ reqs' = Issue(Req("disconnect", "closing", "", serialPort, 0, 0,
                                 "none", "none"))
          /\ ret' = NoRet
          /\ UNCHANGED serialPort
     ELSE /\ ret' = Outcome(Req("disconnect", "done", "", 0, 0, 0, "none", "none"),
                            "ok", "")
          /\ serialPort' = 0
          /\ UNCHANGED <<conns, reqs>>
  /\ NoPush
  /\ UNCHANGED <<mainWindow, quit, fileVars>>

\* serial:disconnect, main.js:105-115, up to its await.
Disconnect ==
  /\ CanRequest
  /\ IF RefOpen
     THEN /\ BagCardinality(reqs) < MaxReqs
          /\ conns' = [conns EXCEPT ![serialPort].st = "closing"]
          /\ reqs' = Issue(Req("disconnect", "closing", "", serialPort, 0, 0,
                                 "none", "none"))
          /\ ret' = NoRet
     ELSE /\ ret' = Outcome(Req("disconnect", "done", "", 0, 0, 0, "none", "none"),
                            "ok", "")
          /\ UNCHANGED <<conns, reqs>>
  /\ NoPush
  /\ UNCHANGED <<serialPort, mainWindow, quit, fileVars>>

\* Send with the guard testing the reference only, not isOpen.
SendChecksRefOnly ==
  /\ CanRequest
  /\ IF serialPort = 0
     THEN /\ ret' = Outcome(Req("send", "done", "", 0, 0, 0, "none", "none"),
                            "fail", "notconnected")
          /\ UNCHANGED reqs
     ELSE /\ BagCardinality(reqs) < MaxReqs
          /\ reqs' = Issue(Req("send", "writing", "", 0, 0, serialPort,
                                 "pending", "none"))
          /\ ret' = NoRet
  /\ NoPush
  /\ UNCHANGED <<serialPort, mainWindow, quit, conns, fileVars>>

\* serial:send, main.js:118-129, up to its first await.
Send ==
  /\ CanRequest
  /\ IF ~RefOpen
     THEN /\ ret' = Outcome(Req("send", "done", "", 0, 0, 0, "none", "none"),
                            "fail", "notconnected")
          /\ UNCHANGED reqs
     ELSE /\ BagCardinality(reqs) < MaxReqs
          /\ reqs' = Issue(Req("send", "writing", "", 0, 0, serialPort,
                                 "pending", "none"))
          /\ ret' = NoRet
  /\ NoPush
  /\ UNCHANGED <<serialPort, mainWindow, quit, conns, fileVars>>

----------------------------------------------------------------------------
\* Completions of library calls, each with the continuation of its handler.

\* The request awaiting the close of connection c, if any.
CloseWaiters(c) == {r \in InFlight : r.pc = "closing" /\ r.closes = c}

\* The port's close completes: the object emits 'close' (main.js:91-95 for each
\* registered forwarder), then calls back the waiting handler, which goes on
\* at main.js:59 (connect) or main.js:109 (disconnect).
CloseComplete(c) ==
  /\ c \in 1..Len(conns)
  /\ conns[c].st = "closing"
  /\ Push(IF mainWindow THEN Repeat(StatusOff, conns[c].close) ELSE <<>>)
  /\ LET closed == [conns EXCEPT ![c].st = "closed"]
     IN IF CloseWaiters(c) = {}
        THEN /\ conns' = closed
             /\ ret' = NoRet
             /\ UNCHANGED <<serialPort, reqs>>
        ELSE LET r == CHOOSE w \in CloseWaiters(c) : TRUE
             IN IF r.kind = "connect"
                THEN /\ conns' = Append(closed, NewConn(r.path))
                     /\ serialPort' = Len(conns) + 1
                     /\ reqs' = Resume(r, [r EXCEPT !.pc = "opening",
                                                    !.own = Len(conns) + 1])
                     /\ ret' = NoRet
                ELSE /\ conns' = closed
                     /\ serialPort' = 0
                     /\ reqs' = Drop(r)
                     /\ ret' = Outcome(r, "ok", "")
  /\ UNCHANGED <<mainWindow, quit, fileVars>>

\* The connect request that constructed connection c and awaits its open.
Opener(c) == CHOOSE r \in InFlight : r.pc = "opening" /\ r.own = c

\* The continuation of connect after a successful open, main.js:76-98: the
\* three forwarders are registered on whatever the reference holds now, then
\* the status event is sent through the window.
AfterOpen(r, opened) ==
  /\ reqs' = Drop(r)
  /\ IF serialPort = 0
     THEN \* serialPort.on of null throws: main.js:77, caught at main.js:99
          /\ conns' = opened
          /\ ret' = Outcome(r, "fail", "type")
          /\ NoPush
     ELSE /\ conns' = [opened EXCEPT ![serialPort].data = @ + 1,
                                     ![serialPort].error = @ + 1,
                                     ![serialPort].close = @ + 1]
          /\ IF mainWindow
             THEN /\ Push(<<StatusOn(r.path)>>)
                  /\ ret' = Outcome(r, "ok", "")
             ELSE \* mainWindow.webContents of null throws: main.js:97
                  /\ NoPush
                  /\ ret' = Outcome(r, "fail", "type")

\* OpenComplete with the open callback's error ignored: the handler goes on
\* as after a successful open.
OpenCompleteIgnoresError(c, ok) ==
  /\ c \in 1..Len(conns)
  /\ conns[c].st = "opening"
  /\ IF ok
     THEN /\ \A d \in OpenConns : conns[d].path # conns[c].path
          /\ AfterOpen(Opener(c), [conns EXCEPT ![c].st = "open"])
     ELSE AfterOpen(Opener(c), [conns EXCEPT ![c].st = "closed"])
  /\ UNCHANGED <<serialPort, mainWindow, quit, fileVars>>

\* The port's open completes (main.js:69-74).  A device path is held
\* exclusively: the open succeeds only if no other open object has the path.
OpenComplete(c, ok) ==
  /\ c \in 1..Len(conns)
  /\ conns[c].st = "opening"
  /\ IF ok
     THEN /\ \A d \in OpenConns : conns[d].path # conns[c].path
          /\ AfterOpen(Opener(c), [conns EXCEPT ![c].st = "open"])
     ELSE /\ conns' = [conns EXCEPT ![c].st = "closed"]
          /\ reqs' = Drop(Opener(c))
          /\ ret' = Outcome(Opener(c), "fail", "open")
          /\ NoPush
  /\ UNCHANGED <<serialPort, mainWindow, quit, fileVars>>

\* The sends suspended at a write on connection object c.
WritesOn(c) == {q \in InFlight : q.pc = "writing" /\ q.tgt = c}

\* The write of send request r completes (main.js:124-129).  On success the
\* handler calls drain on whatever the reference holds now, open or not, and
\* is suspended at that await (main.js:132); drain of null throws.  A write
\* that fails fails every write queued behind it on the object in the same
\* turn, and each of these sends returns the failure (main.js:135-137); the
\* library then closes the port if it was open; the written object, as a
\* stream, may be destroyed, which emits 'close' to its forwarders
\* (main.js:91-95), or not, by the stream's settings.
WriteComplete(r, ok) ==
  /\ r \in InFlight
  /\ r.pc = "writing"
  /\ IF ok
     THEN /\ conns[r.tgt].st # "closed"
          /\ IF serialPort = 0
             THEN /\ reqs' = Drop(r)
                  /\ ret' = Outcome([r EXCEPT !.write = "ok"], "fail", "type")
             ELSE /\ reqs' = Resume(r, [r EXCEPT !.pc = "draining", !.write = "ok",
                                                    !.flush = "pending",
                                                    !.tgt = serialPort])
                  /\ ret' = NoRet
          /\ NoPush
          /\ UNCHANGED conns
     ELSE /\ reqs' = reqs (-) SetToBag(WritesOn(r.tgt))
          /\ ret' = Outcome([r EXCEPT !.write = "err"], "fail", "write")
          /\ conns' = IF IsOpen(r.tgt)
                      THEN [conns EXCEPT ![r.tgt].st = "closing", ![r.tgt].lost = TRUE]
                      ELSE conns
          /\ \E destroys \in BOOLEAN :
                Push(IF destroys /\ mainWindow
                     THEN Repeat(StatusOff, conns[r.tgt].close) ELSE <<>>)
  /\ UNCHANGED <<serialPort, mainWindow, quit, fileVars>>

\* DrainComplete with the promise settled only by a drain without error.
DrainCompleteOnlyOk(r, ok) ==
  /\ r \in InFlight
  /\ r.pc = "draining"
  /\ ok /\ conns[r.tgt].st \in {"open", "closing"}
  /\ reqs' = Drop(r)
  /\ ret' = Outcome([r EXCEPT !.flush = "ok"], "ok", "")
  /\ NoPush
  /\ UNCHANGED <<serialPort, mainWindow, quit, conns, fileVars>>

\* The drain of send request r calls back; its callback is the promise's
\* resolve, whatever it is called with (main.js:132-134).  A drain succeeds
\* only on an object that was open; when and whether the library calls back
\* for a drain called on an object that is not open is left open.
DrainComplete(r, ok) ==
  /\ r \in InFlight
  /\ r.pc = "draining"
  /\ ok => conns[r.tgt].st \in {"open", "closing"}
  /\ reqs' = Drop(r)
  /\ ret' = Outcome([r EXCEPT !.flush = IF ok THEN "ok" ELSE "err"], "ok", "")
  /\ NoPush
  /\ UNCHANGED <<serialPort, mainWindow, quit, conns, fileVars>>

\* The device goes away while the port is open: the library closes the
\* object, which ends in the 'close' event of main.js:91-95.
ExternalClose(c) ==
  /\ c \in OpenConns
  /\ conns' = [conns EXCEPT ![c].st = "closing", ![c].lost = TRUE]
  /\ ret' = NoRet
  /\ NoPush
  /\ UNCHANGED <<serialPort, mainWindow, quit, reqs, fileVars>>

----------------------------------------------------------------------------
\* Window and application events.

\* mainWindow.on('closed'), main.js:30-36.
WindowClosed ==
  /\ mainWindow
  /\ conns' = IF RefOpen THEN [conns EXCEPT ![serialPort].st = "closing"] ELSE conns
  /\ mainWindow' = FALSE
  /\ ret' = NoRet
  /\ NoPush
  /\ UNCHANGED <<serialPort, quit, reqs, fileVars>>

\* app.on('before-quit'), main.js:300-304.
BeforeQuit ==
  /\ ~quit
  /\ conns' = IF RefOpen THEN [conns EXCEPT ![serialPort].st = "closing"] ELSE conns
  /\ quit' = TRUE
  /\ ret' = NoRet
  /\ NoPush
  /\ UNCHANGED <<serialPort, mainWindow, reqs, fileVars>>

\* app.on('activate') with no window left, main.js:293-297 and createWindow.
Activate ==
  /\ ~mainWindow
  /\ ~quit
  /\ mainWindow' = TRUE
  /\ ret' = NoRet
  /\ NoPush
  /\ UNCHANGED <<serialPort, quit, conns, reqs, fileVars>>

----------------------------------------------------------------------------
\* Spreadsheet import and export, main.js:144-280.
\*
\* A JavaScript string is a sequence of tokens, each a run of non-blank
\* characters or one blank " ".  A cell or parameter value is a tagged
\* record: a string, a number, null, or undefined (no cell).
Str(s) == [t |-> "string", s |-> s, n |-> 0]
Num(n) == [t |-> "number", s |-> <<>>, n |-> n]
Null == [t |-> "null", s |-> <<>>, n |-> 0]
Undef == [t |-> "undefined", s |-> <<>>, n |-> 0]

MaxRows == 2           \* rows of a sheet the user picks for import

\* JavaScript truthiness of a cell: main.js:168, main.js:171.
Truthy(v) ==
  CASE v.t = "string" -> v.s # <<>>
    [] v.t = "number" -> v.n # 0
    [] OTHER -> FALSE

\* String(v), main.js:169; the decimal numeral of an integer is one token.
StringOf(v) ==
  CASE v.t = "string" -> v.s
    [] v.t = "number" -> <<ToString(v.n)>>
    [] v.t = "null" -> <<"null">>
    [] OTHER -> <<"undefined">>

RECURSIVE TrimStart(_)
TrimStart(s) == IF s # <<>> /\ Head(s) = " " THEN TrimStart(Tail(s)) ELSE s

RECURSIVE TrimEnd(_)
TrimEnd(s) ==
  IF s # <<>> /\ s[Len(s)] = " " THEN TrimEnd(SubSeq(s, 1, Len(s) - 1)) ELSE s

\* String.prototype.trim, main.js:169.
Trim(s) == TrimEnd(TrimStart(s))

\* row[k] of a JavaScript array, 1-based: undefined past the end.
Cell(row, k) == IF k <= Len(row) THEN row[k] ELSE Undef

\* parameters[name] of a plain object: undefined when the key is absent.
Get(params, name) == IF name \in DOMAIN params THEN params[name] ELSE Undef

\* parameters[name] = value, main.js:172, on a plain object: the key
\* "__proto__" is the prototype's setter, which adds no property of its own
\* and ignores a string or a number.
Put(params, name, value) ==
  IF name = <<"__proto__">> THEN params ELSE (name :> value) @@ params

\* The body of the parse loop for one row, main.js:168-174.
ParseRow(row, params) ==
  IF Truthy(Cell(row, 2))
  THEN LET paramName == Trim(StringOf(Cell(row, 2)))
           value == IF Cell(row, 3).t \notin {"undefined", "null"}
                    THEN Cell(row, 3) ELSE Str(<<>>)
       IN IF paramName # <<>> /\ paramName # <<"Parameter">>
          THEN Put(params, paramName, value)
          ELSE params
  ELSE params

\* The parse loop, main.js:166-175: the assignments that rows lo..hi of data
\* make, in row order, an assignment of a later row overriding that of an
\* earlier one (computed by halves, which keeps the evaluation shallow).
RECURSIVE ParseRows(_, _, _)
ParseRows(data, lo, hi) ==
  IF lo > hi THEN <<>>
  ELSE IF lo = hi THEN ParseRow(data[lo], <<>>)
  ELSE LET mid == (lo + hi) \div 2
       IN ParseRows(data, mid + 1, hi) @@ ParseRows(data, lo, mid)

\* The parameters object import returns for the rows data, main.js:165-177.
ImportRows(data) == ParseRows(data, 1, Len(data))

\* parameterStructure, main.js:212-252.
Entry(category, param, range) ==
  [category |-> category, param |-> <<param>>, range |-> range]

R334 == <<"0~334">>
R255 == <<"0~255">>

ParameterStructure == <<
  Entry(<<>>, "Model", <<>>),
  Entry(<<"AC", " ", "Timing">>, "T0", R334),
  Entry(<<>>, "T1", R334),
  Entry(<<>>, "T2", R334),
  Entry(<<>>, "T3", R334),
  Entry(<<>>, "T4", R334),
  Entry(<<>>, "T5", R334),
  Entry(<<>>, "TSW1b", R334),
  Entry(<<>>, "TSW2b", R334),
  Entry(<<>>, "TSW3b", R334),
  Entry(<<>>, "TSW3a", R334),
  Entry(<<>>, "TSW2a", R334),
  Entry(<<>>, "TSW1a", R334),
  Entry(<<"DC", " ", "Electrial">>, "VD", <<"7~30,", " ", "step", " ", "0.5">>),
  Entry(<<>>, "VG", <<"-18~-6,", " ", "step", " ", "0.25">>),
  Entry(<<"Programble", " ", "Gain", " ", "Setting">>, "CS0_Wiper0", R255),
  Entry(<<>>, "CS0_Wiper1", R255),
  Entry(<<>>, "CS0_Wiper2", R255),
  Entry(<<>>, "CS0_Wiper3", R255),
  Entry(<<>>, "CS1_Wiper0", R255),
  Entry(<<>>, "CS1_Wiper1", R255),
  Entry(<<>>, "CS1_Wiper2", R255),
  Entry(<<>>, "CS1_Wiper3", R255),
  Entry(<<>>, "CS2_Wiper0", R255),
  Entry(<<>>, "CS2_Wiper1", R255),
  Entry(<<>>, "CS2_Wiper2", R255),
  Entry(<<>>, "CS2_Wiper3", R255),
  Entry(<<>>, "CS3_Wiper0", R255),
  Entry(<<>>, "CS3_Wiper1", R255),
  Entry(<<>>, "CS3_Wiper2", R255),
  Entry(<<>>, "CS3_Wiper3", R255),
  Entry(<<>>, "CS4_Wiper0", R255),
  Entry(<<>>, "CS4_Wiper1", R255),
  Entry(<<>>, "CS4_Wiper2", R255),
  Entry(<<>>, "CS4_Wiper3", R255),
  Entry(<<>>, "CS5_Wiper0", R255),
  Entry(<<>>, "CS5_Wiper1", R255),
  Entry(<<>>, "CS5_Wiper2", R255),
  Entry(<<>>, "CS5_Wiper3", R255) >>

TemplateNames == {ParameterStructure[k].param : k \in 1..Len(ParameterStructure)}

\* The header row of the exported sheet, main.js:255-257.
HeaderRow == <<Str(<<"Parameter">>), Null, Str(<<"Value">>), Str(<<"Range">>)>>

\* ExportRow with every falsy value written as an empty cell.
ExportRowFalsyEmpty(item, parameters) ==
  LET value == IF Get(parameters, item.param).t # "undefined"
               THEN Get(parameters, item.param) ELSE Str(<<>>)
  IN << IF item.category # <<>> THEN Str(item.category) ELSE Null,
        Str(item.param),
        IF ~Truthy(value) THEN Null ELSE value,
        Str(item.range) >>

\* The row export writes for one template entry, main.js:260-266.
ExportRow(item, parameters) ==
  LET value == IF Get(parameters, item.param).t # "undefined"
               THEN Get(parameters, item.param) ELSE Str(<<>>)
  IN << IF item.category # <<>> THEN Str(item.category) ELSE Null,
        Str(item.param),
        IF value = Str(<<>>) THEN Null ELSE value,
        Str(item.range) >>

\* WsData with a row only for the template entries that have a value.
WsDataSkipsEmpty(parameters) ==
  <<HeaderRow>> \o SelectSeq([k \in 1..Len(ParameterStructure) |->
                                ExportRow(ParameterStructure[k], parameters)],
                             LAMBDA row : row[3] # Null)

\* wsData, main.js:254-267.
WsData(parameters) ==
  <<HeaderRow>> \o [k \in 1..Len(ParameterStructure) |->
                      ExportRow(ParameterStructure[k], parameters)]

\* XLSX.utils.aoa_to_sheet, main.js:270: null and undefined make no cell.
AoaToSheet(aoa) ==
  [r \in 1..Len(aoa) |->
     [c \in 1..Len(aoa[r]) |->
        IF aoa[r][c].t \in {"null", "undefined"} THEN Undef ELSE aoa[r][c]]]

RECURSIVE DropTrailingHoles(_)
DropTrailingHoles(row) ==
  IF row # <<>> /\ row[Len(row)] = Undef
  THEN DropTrailingHoles(SubSeq(row, 1, Len(row) - 1))
  ELSE row

\* XLSX.utils.sheet_to_json(sheet, {header: 1}), main.js:163: each row an
\* array that ends at its last cell, with holes where the sheet has no cell.
SheetToJson(sheet) == [r \in 1..Len(sheet) |-> DropTrailingHoles(sheet[r])]

\* defaultName, main.js:188-196; the clock's reading is one opaque token.
DefaultName(modelName) ==
  (IF modelName # <<>> THEN modelName ELSE <<"Settings">>)
    \o <<"_", "timestamp", ".xlsx">>

\* Inputs of the file handlers.
\* Parameter names the renderer may send to export: three of the template
\* and one outside it.
ExportKeys == {<<"Model">>, <<"T0">>, <<"CS5_Wiper3">>, <<"Bogus">>}

\* Parameter values: strings and numbers (spec section 3).
Values == {Str(<<>>), Str(<<"abc">>), Str(<<" ", "7">>), Num(0), Num(12)}

ParamMaps == UNION {[K -> Values] : K \in SUBSET ExportKeys}

ModelNames == {<<>>, <<"M1">>}

\* Cells of the rows of a sheet the user picks for import.
NameCells == {Undef, Str(<<>>), Str(<<" ">>), Str(<<"Parameter">>),
              Str(<<" ", "Parameter", " ">>), Str(<<"12">>), Str(<<"T0", " ">>),
              Str(<<"__proto__">>), Num(0), Num(12)}
ValueCells == {Undef, Null, Num(0)}

Rows == {<<>>, <<Str(<<"x">>)>>}
          \cup {<<Undef, b>> : b \in NameCells \ {Undef}}
          \cup {<<Str(<<"x">>), b, c>> : b \in NameCells, c \in ValueCells \ {Undef}}

RECURSIVE Grids(_)
Grids(n) ==
  IF n = 0 THEN {<<>>}
  ELSE Grids(n - 1) \cup {Append(g, r) : g \in Grids(n - 1), r \in Rows}

\* The two files of the model: the user's sheet and the export target.
UserFile == "in.xlsx"
ExportFile == "out.xlsx"

\* The outcome of a file request; st is "dialog" while its dialog is open.
FileReq(kind, st, parameters, filePath, defaultPath) ==
  [kind |-> kind, st |-> st, parameters |-> parameters, filePath |-> filePath,
   defaultPath |-> defaultPath]

NoFile == FileReq("none", "none", <<>>, "", <<>>)

\* file:import up to its dialog, main.js:145-154.
ImportStart ==
  /\ fileOut.st # "dialog"
  /\ fileOut' = FileReq("import", "dialog", <<>>, "", <<>>)
  /\ UNCHANGED <<fileIn, wsFile, serialVars>>

\* The open dialog is canceled, main.js:156-158.
ImportCancel ==
  /\ fileOut.kind = "import" /\ fileOut.st = "dialog"
  /\ fileOut' = FileReq("import", "canceled", <<>>, "", <<>>)
  /\ UNCHANGED <<fileIn, wsFile, serialVars>>

\* The user picks file f, main.js:160-180; ok is whether XLSX.readFile reads it.
ImportPick(f, ok) ==
  /\ fileOut.kind = "import" /\ fileOut.st = "dialog"
  /\ f = ExportFile => wsFile # <<>>
  /\ fileOut' =
       IF ok
       THEN LET data == IF f = UserFile THEN fileIn.grid ELSE SheetToJson(wsFile)
            IN FileReq("import", "ok", ImportRows(data), f, <<>>)
       ELSE FileReq("import", "error", <<>>, "", <<>>)
  /\ UNCHANGED <<fileIn, wsFile, serialVars>>

\* file:export up to its dialog, main.js:184-205.
ExportStart ==
  /\ fileOut.st # "dialog"
  /\ fileOut' = FileReq("export", "dialog", <<>>, "", DefaultName(fileIn.modelName))
  /\ UNCHANGED <<fileIn, wsFile, serialVars>>

\* ExportCancel with the sheet written before the dialog's result is tested.
ExportCancelAfterWrite ==
  /\ fileOut.kind = "export" /\ fileOut.st = "dialog"
  /\ fileOut' = FileReq("export", "canceled", <<>>, "", <<>>)
  /\ wsFile' = AoaToSheet(WsData(fileIn.parameters))
  /\ UNCHANGED <<fileIn, serialVars>>

\* The save dialog is canceled, main.js:207-209.
ExportCancel ==
  /\ fileOut.kind = "export" /\ fileOut.st = "dialog"
  /\ fileOut' = FileReq("export", "canceled", <<>>, "", <<>>)
  /\ UNCHANGED <<fileIn, wsFile, serialVars>>

\* The user confirms the save dialog, main.js:211-279; ok is whether
\* XLSX.writeFile writes the file.
ExportPick(ok) ==
  /\ fileOut.kind = "export" /\ fileOut.st = "dialog"
  /\ IF ok
     THEN /\ wsFile' = AoaToSheet(WsData(fileIn.parameters))
          /\ fileOut' = FileReq("export", "ok", <<>>, ExportFile, <<>>)
     ELSE /\ UNCHANGED wsFile
          /\ fileOut' = FileReq("export", "error", <<>>, "", <<>>)
  /\ UNCHANGED <<fileIn, serialVars>>

\* The renderer's table and the user's sheet while the serial handlers run.
NoInput == [parameters |-> <<>>, modelName |-> <<>>, grid |-> <<>>]

Init ==
  /\ serialPort = 0
  /\ mainWindow = TRUE
  /\ quit = FALSE
  /\ conns = <<>>
  /\ reqs = EmptyBag
  /\ ret = NoRet
  /\ sent = <<>>
  /\ uiStatus = [connected |-> FALSE, port |-> ""]
  /\ fileIn = NoInput
  /\ wsFile = <<>>
  /\ fileOut = NoFile

Next ==
  \/ \E p \in Paths : Connect(p)
  \/ Disconnect
  \/ Send
  \/ \E c \in 1..MaxConns : CloseComplete(c)
  \/ \E c \in 1..MaxConns, ok \in BOOLEAN : OpenComplete(c, ok)
  \/ \E r \in InFlight, ok \in BOOLEAN : WriteComplete(r, ok)
  \/ \E r \in InFlight, ok \in BOOLEAN : DrainComplete(r, ok)
  \/ \E c \in 1..MaxConns : ExternalClose(c)
  \/ WindowClosed
  \/ BeforeQuit
  \/ Activate

Spec == Init /\ [][Next]_vars

----------------------------------------------------------------------------
\* Properties of the serial handlers, checked under Spec.  ret is the outcome
\* returned in the latest turn, so a state predicate on ret speaks of the
\* moment a request returns.

\* C1: in every reachable state at most one connection object is open.
C1_AtMostOneOpen == Cardinality(OpenConns) <= 1

\* C2 as stated: when a connect request that was issued while a connection
\* was open returns, with success or failure, exactly one connection is open
\* and the previously open one is closed.
C2_ExactlyOneAfterReconnect ==
  (ret.kind = "connect" /\ ret.closes # 0) =>
     (Cardinality(OpenConns) = 1 /\ conns[ret.closes].st = "closed")

\* C2 amended: when a connect request that was issued while the referenced
\* connection was open returns, that connection is closed; the connection the
\* request constructed is open if the request returns success and is not open
\* if its open reported an error.
C2_ReconnectClosesPrior ==
  (ret.kind = "connect" /\ ret.closes # 0) =>
     /\ conns[ret.closes].st = "closed"
     /\ ret.own # ret.closes
     /\ ret.res = "ok" => IsOpen(ret.own)
     /\ ret.err = "open" => ~IsOpen(ret.own)

\* C2 witness: a reconnect whose open failed has returned, the prior
\* connection is closed and no connection is open.
C2_Witness ==
  /\ ret.kind = "connect" /\ ret.closes # 0 /\ ret.err = "open"
  /\ conns[ret.closes].st = "closed"
  /\ OpenConns = {}

\* C3: a send request issued while no connection is open returns a failure
\* outcome in the same turn and starts no write and no flush.
C3_SendWithoutConnection ==
  [][(Send /\ OpenConns = {}) =>
       /\ ret'.kind = "send" /\ ret'.res = "fail"
       /\ ret'.write = "none" /\ ret'.flush = "none"
       /\ reqs' = reqs]_vars

\* C3 witness: a send has failed without writing while the reference still
\* holds a connection object that is not open.
C3_Witness ==
  /\ ret.kind = "send" /\ ret.res = "fail" /\ ret.write = "none"
  /\ serialPort # 0
  /\ OpenConns = {}

\* C4: a disconnect request issued while no connection is open returns
\* {success: true} and leaves the reference, every connection object and the
\* UI's events as they were.
C4_DisconnectNoOp ==
  [][(Disconnect /\ OpenConns = {}) =>
       /\ ret'.kind = "disconnect" /\ ret'.res = "ok"
       /\ serialPort' = serialPort
       /\ conns' = conns
       /\ reqs' = reqs
       /\ sent' = <<>>
       /\ uiStatus' = uiStatus]_vars

\* C4 witness: a disconnect has returned success with nothing to close while
\* the reference still holds a connection object that is not open.
C4_Witness ==
  /\ ret.kind = "disconnect" /\ ret.res = "ok" /\ ret.closes = 0
  /\ serialPort # 0
  /\ OpenConns = {}

\* C5: when a disconnect request returns and no other request is in flight,
\* no connection is open and the reference is null.
C5_DisconnectClears ==
  (ret.kind = "disconnect" /\ reqs = EmptyBag) =>
     (OpenConns = {} /\ serialPort = 0)

\* C6: when a connect request returns a failure because the open reported an
\* error, the reference holds no connection object.
C6_FailedConnectRetainsNothing ==
  (ret.kind = "connect" /\ ret.err = "open") => serialPort = 0

\* C7: a send request returns success only if its write and its flush both
\* completed without error.
C7_SuccessMeansFlushed ==
  (ret.kind = "send" /\ ret.res = "ok") => (ret.write = "ok" /\ ret.flush = "ok")

\* C8: while the window is gone after its closed event, or once before-quit
\* has been handled, no connection is open.
C8_NoneOpenAfterClose == (~mainWindow \/ quit) => OpenConns = {}

\* The file handlers on their own: the renderer's parameter table and model
\* name, or the sheet the user picks for import, are drawn at the start.
InitFile ==
  /\ serialPort = 0
  /\ mainWindow = TRUE
  /\ quit = FALSE
  /\ conns = <<>>
  /\ reqs = EmptyBag
  /\ ret = NoRet
  /\ sent = <<>>
  /\ uiStatus = [connected |-> FALSE, port |-> ""]
  /\ \/ \E P \in ParamMaps, M \in ModelNames :
          fileIn = [parameters |-> P, modelName |-> M, grid |-> <<>>]
     \/ \E g \in Grids(MaxRows) :
          fileIn = [parameters |-> <<>>, modelName |-> <<>>, grid |-> g]
  /\ wsFile = <<>>
  /\ fileOut = NoFile

NextFile ==
  \/ ImportStart
  \/ ImportCancel
  \/ \E f \in {UserFile, ExportFile}, ok \in BOOLEAN : ImportPick(f, ok)
  \/ ExportStart
  \/ ExportCancel
  \/ \E ok \in BOOLEAN : ExportPick(ok)

SpecFile == InitFile /\ [][NextFile]_vars

----------------------------------------------------------------------------
\* Properties of the file handlers, checked under SpecFile.

\* The template's parameter names with the value P gives each, or the empty
\* string.
TemplateValues(P) ==
  [name \in TemplateNames |-> IF name \in DOMAIN P THEN P[name] ELSE Str(<<>>)]

\* C9: importing the sheet an export wrote from the mapping P yields, for
\* every parameter name of the template, P's value or the empty string.
C9_ExportImportRoundTrip ==
  (fileOut.kind = "import" /\ fileOut.st = "ok" /\ fileOut.filePath = ExportFile) =>
     \A name \in TemplateNames :
        /\ name \in DOMAIN fileOut.parameters
        /\ fileOut.parameters[name] = TemplateValues(fileIn.parameters)[name]

\* C9 witness: an exported sheet has been imported, the mapping exported
\* holding the number 0, an empty string, and a name outside the template.
C9_Witness ==
  /\ fileOut.kind = "import" /\ fileOut.st = "ok" /\ fileOut.filePath = ExportFile
  /\ DOMAIN fileIn.parameters = {<<"T0">>, <<"CS5_Wiper3">>, <<"Bogus">>}
  /\ fileIn.parameters[<<"T0">>] = Num(0)
  /\ fileIn.parameters[<<"CS5_Wiper3">>] = Str(<<>>)
  /\ fileOut.parameters[<<"T0">>] = Num(0)
  /\ fileOut.parameters[<<"Model">>] = Str(<<>>)

\* The third-column value of a row, the empty string when absent.
RowValue(row) ==
  IF Cell(row, 3).t \in {"undefined", "null"} THEN Str(<<>>) ELSE Cell(row, 3)

\* The entry of the last row among rows (indices into data) with key k.
LastValue(data, rows, key(_), k) ==
  LET i == CHOOSE j \in rows : key(j) = k /\ \A m \in rows : key(m) = k => m <= j
  IN RowValue(data[i])

\* The mapping C10 describes: one entry for each row whose second column is
\* non-empty and not the literal "Parameter", keyed by the trimmed second
\* column, with the row's third column (the empty string when absent).
ClaimedImport(data) ==
  LET key(i) == Trim(StringOf(Cell(data[i], 2)))
      rows == {i \in 1..Len(data) :
                 /\ Cell(data[i], 2).t \in {"string", "number"}
                 /\ Cell(data[i], 2) # Str(<<>>)
                 /\ Cell(data[i], 2) # Str(<<"Parameter">>)}
  IN [k \in {key(i) : i \in rows} |-> LastValue(data, rows, key, k)]

\* C10: for every grid of rows, import returns exactly the mapping that has
\* one entry for each row whose second column is non-empty and not the
\* literal "Parameter"; no other row is skipped.
C10_ImportAsStated ==
  (fileOut.kind = "import" /\ fileOut.st = "ok" /\ fileOut.filePath = UserFile) =>
     fileOut.parameters = ClaimedImport(fileIn.grid)

\* The sheet cells of one template row as C11 describes it: category, name,
\* P's value for the name or nothing, declared range; an empty category or
\* an empty value leaves no cell.
ClaimedRow(item, P) ==
  << IF item.category # <<>> THEN Str(item.category) ELSE Undef,
     Str(item.param),
     IF item.param \in DOMAIN P /\ P[item.param] # Str(<<>>)
     THEN P[item.param] ELSE Undef,
     Str(item.range) >>

\* The header row and, from row 2 on, the first n template entries in
\* template order; no cell holds a key of P that is outside the template.
ClaimedSheet(sheet, P, n) ==
  /\ Len(sheet) = 1 + n
  /\ sheet[1] = <<Str(<<"Parameter">>), Undef, Str(<<"Value">>), Str(<<"Range">>)>>
  /\ \A k \in 1..n : k + 1 <= Len(sheet) => sheet[k + 1] = ClaimedRow(ParameterStructure[k], P)
  /\ \A key \in DOMAIN P \ TemplateNames :
        \A r \in 1..Len(sheet) : \A c \in 1..Len(sheet[r]) : sheet[r][c] # Str(key)

\* C11 as stated: a completed export has written the header row followed by
\* exactly 38 template rows in template order, each (category, name, the
\* mapping's value or empty, range), and no key outside the template.
C11_Export38Rows ==
  wsFile # <<>> => ClaimedSheet(wsFile, fileIn.parameters, 38)

\* C11 amended: a completed export has written the header row followed by
\* exactly 39 template rows in template order, each (category, name, the
\* mapping's value or empty, range), and no key outside the template.
C11_Export39Rows ==
  wsFile # <<>> => ClaimedSheet(wsFile, fileIn.parameters, 39)

\* C11 witness: an export of a mapping with T0 = 12, an empty CS5_Wiper3 and
\* a key outside the template has completed; T0's row holds 12 and the last
\* row, the 40th of the sheet, has no value cell.
C11_Witness ==
  /\ fileOut.kind = "export" /\ fileOut.st = "ok"
  /\ DOMAIN fileIn.parameters = {<<"T0">>, <<"CS5_Wiper3">>, <<"Bogus">>}
  /\ fileIn.parameters[<<"T0">>] = Num(12)
  /\ fileIn.parameters[<<"CS5_Wiper3">>] = Str(<<>>)
  /\ wsFile[3][3] = Num(12)
  /\ wsFile[40][2] = Str(<<"CS5_Wiper3">>) /\ wsFile[40][3] = Undef

----------------------------------------------------------------------------
\* The serial handlers used one request at a time: a request is issued only
\* when none is in flight.
NextSeq ==
  \/ reqs = EmptyBag /\ \E p \in Paths : Connect(p)
  \/ reqs = EmptyBag /\ Disconnect
  \/ reqs = EmptyBag /\ Send
  \/ \E c \in 1..MaxConns : CloseComplete(c)
  \/ \E c \in 1..MaxConns, ok \in BOOLEAN : OpenComplete(c, ok)
  \/ \E r \in InFlight, ok \in BOOLEAN : WriteComplete(r, ok)
  \/ \E r \in InFlight, ok \in BOOLEAN : DrainComplete(r, ok)
  \/ \E c \in 1..MaxConns : ExternalClose(c)
  \/ WindowClosed
  \/ BeforeQuit
  \/ Activate

\* The renderer's table and the user's sheet for the runs in which file and
\* serial requests interleave.
MixedInput ==
  [parameters |-> (<<"T0">> :> Num(12)), modelName |-> <<"M1">>,
   grid |-> << <<Undef, Str(<<"T0">>), Num(0)>> >>]

InitMixed ==
  /\ serialPort = 0
  /\ mainWindow = TRUE
  /\ quit = FALSE
  /\ conns = <<>>
  /\ reqs = EmptyBag
  /\ ret = NoRet
  /\ sent = <<>>
  /\ uiStatus = [connected |-> FALSE, port |-> ""]
  /\ fileIn = MixedInput
  /\ wsFile = <<>>
  /\ fileOut = NoFile

\* File requests between and during serial requests.
NextMixed == NextSeq \/ NextFile

SpecMixed == InitMixed /\ [][NextMixed]_vars

\* C12: when the open dialog of import or the save dialog of export is
\* canceled, the request returns the cancellation outcome (not success, not
\* error, no parameters, no file path), the written file is as it was, and
\* the connection reference, the connections and everything else of the
\* serial part are unchanged.
C12_CancelFrame ==
  [][(ImportCancel \/ ExportCancel) =>
       /\ fileOut'.st = "canceled" /\ fileOut'.st \notin {"ok", "error"}
       /\ fileOut'.kind = fileOut.kind
       /\ fileOut'.parameters = <<>> /\ fileOut'.filePath = ""
       /\ wsFile' = wsFile
       /\ serialPort' = serialPort /\ conns' = conns
       /\ UNCHANGED <<mainWindow, quit, reqs, uiStatus>>]_vars

\* C12 witness: an export has been canceled while a connection is open and
\* referenced, the file of an earlier export still in place.
C12_Witness ==
  /\ fileOut.kind = "export" /\ fileOut.st = "canceled"
  /\ RefOpen
  /\ wsFile # <<>>

----------------------------------------------------------------------------
\* Further properties of the serial handlers.

\* C13: when a connect request returns success, the connection object it
\* constructed and opened carries exactly one data, one error and one close
\* forwarder, and the one status event of the turn is "connected" with this
\* request's port; checked under Spec, where connects overlap.
C13_ForwardersOnOwnConnection ==
  (ret.kind = "connect" /\ ret.res = "ok") =>
     /\ conns[ret.own].data = 1
     /\ conns[ret.own].error = 1
     /\ conns[ret.own].close = 1
     /\ sent = <<StatusOn(ret.path)>>

\* The serial handlers used one request at a time, with external closes and
\* window events at any moment.
SpecSeq == Init /\ [][NextSeq]_vars

\* The reference holds a connection object that has been closed.
StaleRef == serialPort # 0 /\ conns[serialPort].st = "closed"

\* The connection objects the device has closed.
Lost == {c \in 1..Len(conns) : conns[c].lost /\ conns[c].st = "closed"}

\* C14: (a) when the close of the referenced connection, begun by the
\* device, completes and the window exists, the turn pushes
\* {connected: false} and no connection is open through the reference;
\* (b) a send issued while the reference is stale fails without writing;
\* (c) a connect issued while the reference is stale awaits no close and
\* constructs a new object at once; (d) when the open of a connect that
\* awaited no close succeeds after the device has closed an earlier
\* connection, the connect returns success and leaves exactly one open
\* connection, its own, held by the reference.
C14_ExternalCloseThenReconnect ==
  [][/\ (\E c \in 1..Len(conns) :
            CloseComplete(c) /\ conns[c].lost /\ serialPort = c /\ mainWindow)
         => (sent' = <<StatusOff>> /\ uiStatus' = StatusOff /\ ~RefOpen')
     /\ (Send /\ StaleRef)
         => (ret'.kind = "send" /\ ret'.res = "fail" /\ ret'.write = "none"
             /\ reqs' = reqs /\ conns' = conns)
     /\ ((\E p \in Paths : Connect(p)) /\ StaleRef)
         => (/\ Len(conns') = Len(conns) + 1
             /\ serialPort' = Len(conns')
             /\ conns'[serialPort].st = "closed"
             /\ \A r \in BagToSet(reqs') : r.pc = "opening" /\ r.own = serialPort')
     /\ \A c \in 1..Len(conns) :
           (OpenComplete(c, TRUE) /\ Opener(c).closes = 0 /\ Lost # {})
           => (/\ ret'.kind = "connect" /\ ret'.res = "ok"
               /\ OpenConns' = {c} /\ serialPort' = c)]_vars

----------------------------------------------------------------------------
\* Termination of requests.

\* serial:list up to its await, main.js:41-43.
ListPorts ==
  /\ CanRequest
  /\ BagCardinality(reqs) < MaxReqs
  /\ reqs' = Issue(Req("list", "listing", "", 0, 0, 0, "none", "none"))
  /\ ret' = NoRet
  /\ NoPush
  /\ UNCHANGED <<serialPort, mainWindow, quit, conns, fileVars>>

\* SerialPort.list() completes, main.js:43-47.
ListComplete(r, ok) ==
  /\ r \in InFlight
  /\ r.pc = "listing"
  /\ reqs' = Drop(r)
  /\ ret' = IF ok THEN Outcome(r, "ok", "") ELSE Outcome(r, "fail", "list")
  /\ NoPush
  /\ UNCHANGED <<serialPort, mainWindow, quit, conns, fileVars>>

\* Bridge requests in flight, the file request at its dialog included.
Pending == BagCardinality(reqs) + (IF fileOut.st = "dialog" THEN 1 ELSE 0)

\* All the handlers, serial:list included, with requests of every kind
\* overlapping freely and the device closing a port at any moment.
NextLive ==
  \/ Pending < MaxReqs /\ \E p \in Paths : Connect(p)
  \/ Pending < MaxReqs /\ Disconnect
  \/ Pending < MaxReqs /\ Send
  \/ Pending < MaxReqs /\ ListPorts
  \/ Pending < MaxReqs /\ ImportStart
  \/ Pending < MaxReqs /\ ExportStart
  \/ \E c \in 1..MaxConns : CloseComplete(c)
  \/ \E c \in 1..MaxConns, ok \in BOOLEAN : OpenComplete(c, ok)
  \/ \E r \in InFlight, ok \in BOOLEAN : WriteComplete(r, ok)
  \/ \E r \in InFlight, ok \in BOOLEAN : DrainComplete(r, ok)
  \/ \E r \in InFlight, ok \in BOOLEAN : ListComplete(r, ok)
  \/ \E c \in 1..MaxConns : ExternalClose(c)
  \/ ImportCancel
  \/ \E f \in {UserFile, ExportFile}, ok \in BOOLEAN : ImportPick(f, ok)
  \/ ExportCancel
  \/ \E ok \in BOOLEAN : ExportPick(ok)

\* The library call that invocation i awaits calls back: the close, the open,
\* the write, the drain or the enumeration.
CallOf(i) ==
  \E r \in InFlight :
     /\ r.id = i
     /\ \/ r.pc = "closing" /\ CloseComplete(r.closes)
        \/ r.pc = "opening" /\ \E ok \in BOOLEAN : OpenComplete(r.own, ok)
        \/ \E ok \in BOOLEAN : WriteComplete(r, ok)
        \/ \E ok \in BOOLEAN : DrainComplete(r, ok)
        \/ \E ok \in BOOLEAN : ListComplete(r, ok)

\* The dialog of the file request is answered; the file is read or written in
\* the turn of the answer (main.js:161, 275).
DialogAnswered ==
  \/ ImportCancel
  \/ \E f \in {UserFile, ExportFile}, ok \in BOOLEAN : ImportPick(f, ok)
  \/ ExportCancel
  \/ \E ok \in BOOLEAN : ExportPick(ok)

\* Every library call started by a request eventually completes.
Completes ==
  /\ \A i \in 1..MaxReqs : WF_vars(CallOf(i))
  /\ WF_vars(DialogAnswered)

SpecLive == Init /\ [][NextLive]_vars /\ Completes

\* Every request in flight is suspended at one of the awaits of its handler.
AtAwait ==
  \A r \in InFlight :
     \/ r.kind \in {"connect", "disconnect"} /\ r.pc = "closing"
          /\ r.closes \in 1..Len(conns)
     \/ r.kind = "connect" /\ r.pc = "opening" /\ r.own \in 1..Len(conns)
     \/ r.kind = "send" /\ r.pc \in {"writing", "draining"}
          /\ r.tgt \in 1..Len(conns)
     \/ r.kind = "list" /\ r.pc = "listing"

\* The turn in which invocation i returns hands the renderer an outcome of
\* its kind, success or failure.
Returns(i) ==
  \A r \in InFlight :
     (r.id = i /\ i \notin Ids') =>
        (ret'.kind = r.kind /\ ret'.res \in {"ok", "fail"})

----------------------------------------------------------------------------
\* Properties of the reference and the forwarders under overlapping requests,
\* checked under Spec.

\* No close or open is in progress on any connection object.
Settled == \A c \in 1..Len(conns) : conns[c].st \in {"open", "closed"}

\* C16: whenever no request is in flight, the window exists and no close or
\* open is still in progress, the last status event pushed to the UI says
\* connected: true if and only if the connection held by the reference is
\* open.
C16_StatusMatchesReference ==
  (reqs = EmptyBag /\ mainWindow /\ Settled) => (uiStatus.connected <=> RefOpen)

\* C17: every open connection object is the one the reference holds, and
\* when a disconnect has returned with no request in flight no connection
\* is open.
C17_OpenIsReferenced ==
  /\ \A c \in OpenConns : c = serialPort
  /\ (ret.kind = "disconnect" /\ reqs = EmptyBag) => OpenConns = {}

\* C18: no connection object carries more than one data forwarder, and
\* every open connection carries exactly one, so that a chunk received
\* while the window exists is forwarded exactly once.
C18_OneDataForwarder ==
  /\ \A c \in 1..Len(conns) : conns[c].data <= 1
  /\ \A c \in OpenConns : conns[c].data = 1

\* C19: a connect request returns success if and only if the connection
\* object it constructed is open at the moment it returns.
C19_SuccessIffOwnOpen ==
  (ret.kind = "connect" /\ ret.res \in {"ok", "fail"}) =>
     (ret.res = "ok" <=> (ret.own # 0 /\ conns[ret.own].st = "open"))

====
